---- MODULE Spec2Model ----
(***************************************************************************)
(* A model of pyflutterflow's stateful helpers:                            *)
(*   - the module-level token cache of supabase_repository.py and          *)
(*     SupabaseRepository.get_token,                                       *)
(*   - the SupabaseClient singleton of supabase_client.py (construction,   *)
(*     initialize_client, get_client, close_client as asyncio coroutines), *)
(*   - get_current_user / get_admin_user of auth.py.                       *)
(***************************************************************************)
EXTENDS Integers, Sequences, FiniteSets, TLC

VARIABLES
    now,                    \* the clock read by TTLCache's timer and by datetime.now
    token_cache,            \* supabase_repository.token_cache
    tokRet,                 \* what the last get_token call did and returned
    settings,               \* PyFlutterflow().settings (0: the attribute is not set)
    SupabaseClient_instance,\* SupabaseClient._instance (0: None)
    objects,                \* attributes of every SupabaseClient object allocated so far
    clients,                \* number of AsyncClient objects create_client has returned
    newRet,                 \* what the last SupabaseClient() call returned or raised
    pc,                     \* per task: where its coroutine is suspended
    self,                   \* per task: the object its suspended coroutine runs on
    ret,                    \* per task: what its last finished call returned or raised
    REQUIRE_VERIFIED_EMAIL, \* auth.REQUIRE_VERIFIED_EMAIL, fixed at import
    ADMIN_ROLE,             \* pyflutterflow.constants.ADMIN_ROLE, fixed at import
    authRet                 \* the last get_admin_user call: its token and its outcome

vars == <<now, token_cache, tokRet, settings, SupabaseClient_instance, objects,
          clients, newRet, pc, self, ret, REQUIRE_VERIFIED_EMAIL, ADMIN_ROLE, authRet>>

tokenVars  == <<now, token_cache, tokRet>>
clientVars == <<settings, SupabaseClient_instance, objects, clients, newRet, pc, self, ret>>
authVars   == <<REQUIRE_VERIFIED_EMAIL, ADMIN_ROLE, authRet>>

(***************************************************************************)
(* Program constants and model bounds                                      *)
(***************************************************************************)
MAXSIZE == 100              \* TTLCache(maxsize=100, ...)
TTL == 300                  \* TTLCache(..., ttl=300), seconds
ThirtyDays == 2592000       \* timedelta(days=30), seconds

MaxTime == 602              \* the clock stops advancing past this
MaxClients == 2             \* create_client is not called more often than this
NumTasks == 2               \* concurrently running coroutines

\* User ids. 1..MAXSIZE-1 may already be cached when the model starts; the
\* callers afterwards are two of those and two that are not.
Users == 1..(MAXSIZE + 1)
Callers == {1, 2, MAXSIZE, MAXSIZE + 1}
\* The clock advances by one of these between calls.
Steps == {TTL - 1, TTL, TTL + 1}

(***************************************************************************)
(* SupabaseClient.generate_jwt: the payload that is signed.                *)
(***************************************************************************)
GenerateJwt(member_id, t) ==
    [sub |-> member_id, member_id |-> member_id, iss |-> "supabase",
     role |-> "authenticated", iat |-> t, exp |-> t + ThirtyDays]

(***************************************************************************)
(* cachetools.TTLCache, as token_cache uses it.  data: key -> value;       *)
(* expires: key -> expiry time; order: keys, least recently used first.    *)
(***************************************************************************)
EmptyCache == [data |-> <<>>, expires |-> <<>>, order |-> <<>>]

CacheRemove(c, dead) ==
    LET keep == DOMAIN c.data \ dead
        Kept(k) == k \notin dead
    IN  [data |-> [k \in keep |-> c.data[k]],
         expires |-> [k \in keep |-> c.expires[k]],
         order |-> SelectSeq(c.order, Kept)]

\* TTLCache.__contains__: the key is held and not expired; no reordering.
CacheContains(c, k, t) ==
    /\ k \in DOMAIN c.data
    /\ t < c.expires[k]

\* TTLCache.expire(time): drop every entry with expires <= time.
CacheExpire(c, t) ==
    CacheRemove(c, {k \in DOMAIN c.data : ~(t < c.expires[k])})

\* TTLCache.popitem: expire, then drop the least recently used key.
CachePopItem(c, t) ==
    LET e == CacheExpire(c, t)
    IN  IF e.order = <<>> THEN e ELSE CacheRemove(e, {Head(e.order)})

\* Cache.__setitem__'s loop: while size + 1 > maxsize: popitem().
RECURSIVE CacheMakeRoom(_, _)
CacheMakeRoom(c, t) ==
    IF Cardinality(DOMAIN c.data) + 1 > MAXSIZE /\ c.order # <<>>
    THEN CacheMakeRoom(CachePopItem(c, t), t)
    ELSE c

\* A mutant of CacheSetItem: the entry lives one second too long.
CacheSetItemLate(c, k, v, t) ==
    LET e == CacheExpire(c, t)
        room == IF k \notin DOMAIN e.data THEN CacheMakeRoom(e, t) ELSE e
        keys == DOMAIN room.data \cup {k}
        Other(x) == x # k
    IN  [data |-> [x \in keys |-> IF x = k THEN v ELSE room.data[x]],
         expires |-> [x \in keys |-> IF x = k THEN t + TTL + 1 ELSE room.expires[x]],
         order |-> Append(SelectSeq(room.order, Other), k)]

\* TTLCache.__setitem__: expire, make room for a new key, store, and give
\* the key expiry time + ttl and the most recently used place.
CacheSetItem(c, k, v, t) ==
    LET e == CacheExpire(c, t)
        room == IF k \notin DOMAIN e.data THEN CacheMakeRoom(e, t) ELSE e
        keys == DOMAIN room.data \cup {k}
        Other(x) == x # k
    IN  [data |-> [x \in keys |-> IF x = k THEN v ELSE room.data[x]],
         expires |-> [x \in keys |-> IF x = k THEN t + TTL ELSE room.expires[x]],
         order |-> Append(SelectSeq(room.order, Other), k)]

\* TTLCache.__getitem__: KeyError for a missing or expired key, else the
\* value, and the key becomes the most recently used.
CacheGetItem(c, k, t) ==
    LET Other(x) == x # k
    IN  IF k \in DOMAIN c.data /\ t < c.expires[k]
        THEN [raised |-> "", value |-> c.data[k],
              cache |-> [c EXCEPT !.order = Append(SelectSeq(c.order, Other), k)]]
        ELSE [raised |-> "KeyError", value |-> GenerateJwt(0, 0), cache |-> c]

\* The cache after get_token was called for users 1..n (n <= MAXSIZE), in this
\* order, at time 0: n misses, each storing a token generated at 0.
CacheAfterCalls(n) ==
    [data |-> [k \in 1..n |-> GenerateJwt(k, 0)],
     expires |-> [k \in 1..n |-> 0 + TTL],
     order |-> [i \in 1..n |-> i]]

NoTokRet ==
    [user_id |-> 0, raised |-> "", header |-> <<>>, generated |-> 0, age |-> -1, at |-> 0]

\* The age of the entry token_cache holds for user_id (expired or not), -1 if none.
EntryAge(user_id) ==
    IF user_id \in DOMAIN token_cache.data
    THEN now - token_cache.data[user_id].iat
    ELSE -1

(***************************************************************************)
(* SupabaseRepository.get_token(user_id)                                   *)
(***************************************************************************)
\* A mutant of GetToken: the generated token is not stored.
GetTokenNoStore(user_id) ==
    /\ IF CacheContains(token_cache, user_id, now)
       THEN LET got == CacheGetItem(token_cache, user_id, now)
            IN  /\ token_cache' = got.cache
                /\ tokRet' = [user_id |-> user_id, raised |-> got.raised,
                              header |-> IF got.raised = "" THEN <<"Bearer ", got.value>>
                                         ELSE <<>>,
                              generated |-> 0, age |-> EntryAge(user_id), at |-> now]
       ELSE LET jwt_token == GenerateJwt(user_id, now)
            IN  /\ token_cache' = token_cache
                /\ tokRet' = [user_id |-> user_id, raised |-> "",
                              header |-> <<"Bearer ", jwt_token>>,
                              generated |-> 1, age |-> EntryAge(user_id), at |-> now]
    /\ UNCHANGED <<now, clientVars, authVars>>

GetToken(user_id) ==
    /\ IF CacheContains(token_cache, user_id, now)
       THEN LET got == CacheGetItem(token_cache, user_id, now)
            IN  /\ token_cache' = got.cache
                /\ tokRet' = [user_id |-> user_id, raised |-> got.raised,
                              header |-> IF got.raised = "" THEN <<"Bearer ", got.value>>
                                         ELSE <<>>,
                              generated |-> 0, age |-> EntryAge(user_id), at |-> now]
       ELSE LET jwt_token == GenerateJwt(user_id, now)
            IN  /\ token_cache' = CacheSetItem(token_cache, user_id, jwt_token, now)
                /\ tokRet' = [user_id |-> user_id, raised |-> "",
                              header |-> <<"Bearer ", jwt_token>>,
                              generated |-> 1, age |-> EntryAge(user_id), at |-> now]
    /\ UNCHANGED <<now, clientVars, authVars>>

\* Time passes between calls.
Tick(dt) ==
    /\ now + dt <= MaxTime
    /\ now' = now + dt
    /\ UNCHANGED <<token_cache, tokRet, clientVars, authVars>>

(***************************************************************************)
(* PyFlutterflow: the settings object SupabaseClient.__init__ reads.       *)
(***************************************************************************)
SettingsIds == {1, 2}
Settings(i) ==
    IF i = 1
    THEN [supabase_url |-> "url-1", supabase_key |-> "key-1", supabase_jwt_secret |-> "secret-1"]
    ELSE [supabase_url |-> "url-2", supabase_key |-> "key-2", supabase_jwt_secret |-> "secret-2"]

\* PyFlutterflow(settings): a settings object replaces the one held, None (0) does not.
PyFlutterflowInit(s) ==
    /\ settings' = IF s # 0 THEN s ELSE settings
    /\ UNCHANGED <<SupabaseClient_instance, objects, clients, newRet, pc, self, ret,
                   tokenVars, authVars>>

(***************************************************************************)
(* SupabaseClient: __new__ and __init__                                    *)
(***************************************************************************)
\* An object as object.__new__ leaves it: no _initialized attribute yet.
NewObject ==
    [initialized |-> FALSE, supabase_url |-> "", supabase_key |-> "",
     supabase_jwt_secret |-> "", client |-> 0]

\* A mutant of SupabaseClientNew: every call allocates.
SupabaseClientNewAlways(inst, objs) ==
    [instance |-> Len(objs) + 1, objects |-> Append(objs, NewObject), obj |-> Len(objs) + 1]

\* SupabaseClient.__new__: allocate only while _instance is None.
SupabaseClientNew(inst, objs) ==
    IF inst = 0
    THEN [instance |-> Len(objs) + 1, objects |-> Append(objs, NewObject), obj |-> Len(objs) + 1]
    ELSE [instance |-> inst, objects |-> objs, obj |-> inst]

\* A mutant of SupabaseClientInit: no _initialized guard.
SupabaseClientInitAgain(attrs, env) ==
    IF env = 0
    THEN [raised |-> "ValueError", attrs |-> attrs]
    ELSE [raised |-> "",
          attrs |-> [initialized |-> TRUE,
                     supabase_url |-> Settings(env).supabase_url,
                     supabase_key |-> Settings(env).supabase_key,
                     supabase_jwt_secret |-> Settings(env).supabase_jwt_secret,
                     client |-> 0]]

\* SupabaseClient.__init__ on an object with attributes attrs, the environment
\* holding settings env: get_environment raises ValueError without settings.
SupabaseClientInit(attrs, env) ==
    IF attrs.initialized
    THEN [raised |-> "", attrs |-> attrs]
    ELSE IF env = 0
    THEN [raised |-> "ValueError", attrs |-> attrs]
    ELSE [raised |-> "",
          attrs |-> [initialized |-> TRUE,
                     supabase_url |-> Settings(env).supabase_url,
                     supabase_key |-> Settings(env).supabase_key,
                     supabase_jwt_secret |-> Settings(env).supabase_jwt_secret,
                     client |-> 0]]

NoNewRet == [obj |-> 0, raised |-> "", fresh |-> FALSE, env |-> 0, held |-> 0]

\* A call SupabaseClient(): __new__, then __init__ on what it returned.
Construct ==
    LET made == SupabaseClientNew(SupabaseClient_instance, objects)
        o == made.obj
        init == SupabaseClientInit(made.objects[o], settings)
    IN  /\ SupabaseClient_instance' = made.instance
        /\ objects' = [made.objects EXCEPT ![o] = init.attrs]
        /\ newRet' = [obj |-> IF init.raised = "" THEN o ELSE 0,
                      raised |-> init.raised,
                      fresh |-> init.raised = "" /\ ~made.objects[o].initialized,
                      env |-> settings,
                      held |-> made.objects[o].client]
        /\ UNCHANGED <<settings, clients, pc, self, ret, tokenVars, authVars>>

(***************************************************************************)
(* SupabaseClient: the coroutines.  A task is suspended only at            *)
(* "await create_client(...)"; everything else runs without yielding.      *)
(***************************************************************************)
Tasks == 1..NumTasks
Live == {o \in DOMAIN objects : objects[o].initialized}
Pending == Cardinality({t \in Tasks : pc[t] # "idle"})

NoRet == [op |-> "", obj |-> 0, raised |-> "", value |-> 0, held |-> 0, created |-> 0]

\* initialize_client(): start create_client when no client is held.
InitializeClientCall(t, o) ==
    /\ pc[t] = "idle"
    /\ o \in Live
    /\ IF objects[o].client = 0
       THEN /\ clients + Pending < MaxClients
            /\ pc' = [pc EXCEPT ![t] = "initialize_client"]
            /\ self' = [self EXCEPT ![t] = o]
            /\ ret' = ret
       ELSE /\ ret' = [ret EXCEPT ![t] = [op |-> "initialize_client", obj |-> o, raised |-> "",
                                           value |-> 0, held |-> objects[o].client,
                                           created |-> 0]]
            /\ UNCHANGED <<pc, self>>
    /\ UNCHANGED <<settings, SupabaseClient_instance, objects, clients, newRet,
                   tokenVars, authVars>>

\* A mutant of GetClientCall: the held slot is returned as it is.
GetClientCallNoInit(t, o) ==
    /\ pc[t] = "idle"
    /\ o \in Live
    /\ ret' = [ret EXCEPT ![t] = [op |-> "get_client", obj |-> o, raised |-> "",
                                   value |-> objects[o].client,
                                   held |-> objects[o].client, created |-> 0]]
    /\ UNCHANGED <<pc, self, settings, SupabaseClient_instance, objects, clients, newRet,
                   tokenVars, authVars>>

\* get_client(): return the held client, or go through initialize_client first.
GetClientCall(t, o) ==
    /\ pc[t] = "idle"
    /\ o \in Live
    /\ IF objects[o].client = 0
       THEN /\ clients + Pending < MaxClients
            /\ pc' = [pc EXCEPT ![t] = "get_client"]
            /\ self' = [self EXCEPT ![t] = o]
            /\ ret' = ret
       ELSE /\ ret' = [ret EXCEPT ![t] = [op |-> "get_client", obj |-> o, raised |-> "",
                                           value |-> objects[o].client,
                                           held |-> objects[o].client, created |-> 0]]
            /\ UNCHANGED <<pc, self>>
    /\ UNCHANGED <<settings, SupabaseClient_instance, objects, clients, newRet,
                   tokenVars, authVars>>

\* create_client returns a new AsyncClient: initialize_client stores it, and
\* get_client, when it was the caller, returns the slot.
CreateClientDone(t) ==
    /\ pc[t] # "idle"
    /\ clients' = clients + 1
    /\ objects' = [objects EXCEPT ![self[t]].client = clients + 1]
    /\ pc' = [pc EXCEPT ![t] = "idle"]
    /\ self' = [self EXCEPT ![t] = 0]
    /\ ret' = [ret EXCEPT ![t] =
                  [op |-> pc[t], obj |-> self[t], raised |-> "",
                   value |-> IF pc[t] = "get_client" THEN objects'[self[t]].client ELSE 0,
                   held |-> 0, created |-> 1]]
    /\ UNCHANGED <<settings, SupabaseClient_instance, newRet, tokenVars, authVars>>

\* A mutant of CloseClient: closing without a client is accepted silently.
CloseClientQuiet(t, o) ==
    /\ pc[t] = "idle"
    /\ o \in Live
    /\ objects' = [objects EXCEPT ![o].client = 0]
    /\ ret' = [ret EXCEPT ![t] = [op |-> "close_client", obj |-> o, raised |-> "", value |-> 0,
                                   held |-> objects[o].client, created |-> 0]]
    /\ UNCHANGED <<pc, self, settings, SupabaseClient_instance, clients, newRet,
                   tokenVars, authVars>>

\* close_client(): ValueError without a client, else the slot is reset to None.
CloseClient(t, o) ==
    /\ pc[t] = "idle"
    /\ o \in Live
    /\ IF objects[o].client = 0
       THEN /\ ret' = [ret EXCEPT ![t] = [op |-> "close_client", obj |-> o, raised |-> "ValueError",
                                           value |-> 0, held |-> 0, created |-> 0]]
            /\ objects' = objects
       ELSE /\ objects' = [objects EXCEPT ![o].client = 0]
            /\ ret' = [ret EXCEPT ![t] = [op |-> "close_client", obj |-> o, raised |-> "", value |-> 0,
                                           held |-> objects[o].client, created |-> 0]]
    /\ UNCHANGED <<pc, self, settings, SupabaseClient_instance, clients, newRet,
                   tokenVars, authVars>>

(***************************************************************************)
(* auth.py: get_current_user and get_admin_user.  A bearer token is        *)
(* modelled by what firebase_admin.auth.verify_id_token makes of it: the   *)
(* outcome of the check and the decoded claims.                            *)
(***************************************************************************)
\* os.getenv("REQUIRE_VERIFIED_EMAIL") or False, as Python prints the value.
EnvValues == {"<unset>", "", "false", "true"}
OrFalse(v) == IF v = "<unset>" \/ v = "" THEN "False" ELSE v
Truthy(v) == v # "False"

Claims ==
    [uid : {"u1", "u2"},
     complete : BOOLEAN,                       \* email, auth_time, iat, exp are present
     email_verified : {"absent", "True", "False"},
     role : {"absent", "user", "admin", "superuser"}]
Tokens == [check : {"ok", "expired", "invalid"}, claims : Claims]

HTTP_401_UNAUTHORIZED == 401

Unauthorized(detail) ==
    [raised |-> "HTTPException", status_code |-> HTTP_401_UNAUTHORIZED, detail |-> detail,
     user |-> [uid |-> "", email_verified |-> "", role |-> ""]]

\* FirebaseUser(**decoded_token): the required fields must be present, role
\* defaults to "user".
FirebaseUser(c) ==
    IF c.complete /\ c.email_verified # "absent"
    THEN [raised |-> "", status_code |-> 0, detail |-> "",
          user |-> [uid |-> c.uid, email_verified |-> c.email_verified,
                    role |-> IF c.role = "absent" THEN "user" ELSE c.role]]
    ELSE [raised |-> "ValidationError", status_code |-> 0, detail |-> "",
          user |-> [uid |-> "", email_verified |-> "", role |-> ""]]

\* A mutant of GetCurrentUser: a token that failed verification is decoded anyway.
GetCurrentUserUnchecked(token) ==
    LET made == FirebaseUser(token.claims)
    IN  IF made.raised # "" THEN Unauthorized("str(e)") ELSE made

\* get_current_user(token): every failure leaves as HTTP 401.
GetCurrentUser(token) ==
    IF token.check = "expired" THEN Unauthorized("Auth token has expired")
    ELSE IF token.check # "ok" THEN Unauthorized("str(e)")
    ELSE IF Truthy(REQUIRE_VERIFIED_EMAIL) /\ token.claims.email_verified # "True"
         THEN Unauthorized("str(e)")   \* the 'Email not verified' exception, caught and re-raised
    ELSE LET made == FirebaseUser(token.claims)
         IN  IF made.raised # "" THEN Unauthorized("str(e)") ELSE made

\* A mutant of GetAdminUser: the role is not compared.
GetAdminUserAnyRole(token) ==
    GetCurrentUser(token)

\* get_admin_user(token)
GetAdminUser(token) ==
    LET current_user == GetCurrentUser(token)
    IN  IF current_user.raised # "" THEN current_user
        ELSE IF current_user.user.role = ADMIN_ROLE THEN current_user
        ELSE Unauthorized("You are not an admin.")

NoToken == [check |-> "none", claims |-> [uid |-> "", complete |-> FALSE,
                                          email_verified |-> "absent", role |-> "absent"]]
NoAuthRet == [token |-> NoToken, result |-> Unauthorized("")]

\* A request reaches a route that depends on get_admin_user.
GetAdminUserCall(token) ==
    /\ authRet' = [token |-> token, result |-> GetAdminUser(token)]
    /\ UNCHANGED <<REQUIRE_VERIFIED_EMAIL, ADMIN_ROLE, tokenVars, clientVars>>

(***************************************************************************)
(* Specifications: one per component, the others at rest.                  *)
(***************************************************************************)
TokenRest == now = 0 /\ token_cache = EmptyCache /\ tokRet = NoTokRet
ClientRest ==
    /\ settings = 0
    /\ SupabaseClient_instance = 0
    /\ objects = <<>>
    /\ clients = 0
    /\ newRet = NoNewRet
    /\ pc = [t \in Tasks |-> "idle"]
    /\ self = [t \in Tasks |-> 0]
    /\ ret = [t \in Tasks |-> NoRet]
AuthRest ==
    /\ REQUIRE_VERIFIED_EMAIL = "False"
    /\ ADMIN_ROLE = "admin"
    /\ authRet = NoAuthRet

\* The token cache: empty as at import, or as MAXSIZE-1 calls at time 0 leave it.
InitToken ==
    /\ now = 0
    /\ token_cache \in {CacheAfterCalls(0), CacheAfterCalls(MAXSIZE - 1)}
    /\ tokRet = NoTokRet
    /\ ClientRest
    /\ AuthRest

NextToken ==
    \/ \E u \in Callers : GetToken(u)
    \/ \E dt \in Steps : Tick(dt)

SpecToken == InitToken /\ [][NextToken]_vars

InitClient == TokenRest /\ ClientRest /\ AuthRest

NextClient ==
    \/ \E s \in {0} \cup SettingsIds : PyFlutterflowInit(s)
    \/ Construct
    \/ \E t \in Tasks, o \in DOMAIN objects : InitializeClientCall(t, o)
    \/ \E t \in Tasks, o \in DOMAIN objects : GetClientCall(t, o)
    \/ \E t \in Tasks : CreateClientDone(t)
    \/ \E t \in Tasks, o \in DOMAIN objects : CloseClient(t, o)

SpecClient == InitClient /\ [][NextClient]_vars

InitAuth ==
    /\ TokenRest
    /\ ClientRest
    /\ REQUIRE_VERIFIED_EMAIL \in {OrFalse(v) : v \in EnvValues}
    /\ ADMIN_ROLE \in {"admin", "superuser"}
    /\ authRet = NoAuthRet

NextAuth == \E token \in Tokens : GetAdminUserCall(token)

SpecAuth == InitAuth /\ [][NextAuth]_vars

(***************************************************************************)
(* Properties                                                              *)
(***************************************************************************)

\* What token_cache holds for u that has not expired (what "u's entry is in
\* token_cache" means for a TTLCache).
HasLiveEntry(u) == u \in DOMAIN token_cache.data /\ now < token_cache.expires[u]

C1_KeysOwnTokens == \A k \in DOMAIN token_cache.data : token_cache.data[k].sub = k

C1_Step(u) ==
    IF HasLiveEntry(u)
    THEN /\ tokRet'.raised = ""
         /\ tokRet'.generated = 0
         /\ tokRet'.header = <<"Bearer ", token_cache.data[u]>>
         /\ token_cache'.data = token_cache.data
         /\ token_cache.data[u].sub = u
    ELSE /\ tokRet'.raised = ""
         /\ tokRet'.generated = 1
         /\ tokRet'.header = <<"Bearer ", GenerateJwt(u, now)>>
         /\ tokRet'.header[2].sub = u
         /\ u \in DOMAIN token_cache'.data
         /\ token_cache'.data[u] = tokRet'.header[2]

C2_CacheBounded ==
    /\ Cardinality(DOMAIN token_cache.data) <= MAXSIZE
    /\ tokRet.user_id # 0 /\ tokRet.generated = 0 =>
          /\ tokRet.raised = ""
          /\ tokRet.at - tokRet.header[2].iat < TTL
          /\ tokRet.age = tokRet.at - tokRet.header[2].iat
    /\ tokRet.user_id # 0 /\ tokRet.age >= TTL =>
          /\ tokRet.generated = 1
          /\ tokRet.header[2].iat = tokRet.at

\* A call found an entry exactly 300 seconds old and generated a new token.
C2_Witness ==
    /\ tokRet.user_id # 0
    /\ tokRet.age = TTL
    /\ tokRet.generated = 1

C3_OneObject ==
    /\ Len(objects) <= 1
    /\ newRet.obj # 0 => newRet.obj = SupabaseClient_instance

C3_Step ==
    /\ newRet.obj # 0 /\ newRet'.obj # 0 => newRet'.obj = newRet.obj
    /\ \A o \in DOMAIN objects :
          objects[o].initialized =>
             /\ objects'[o].initialized
             /\ objects'[o].supabase_url = objects[o].supabase_url
             /\ objects'[o].supabase_key = objects[o].supabase_key
             /\ objects'[o].supabase_jwt_secret = objects[o].supabase_jwt_secret
             /\ Construct => objects'[o].client = objects[o].client

\* C3: every SupabaseClient() call returns the same object; its settings and
\* its _client slot are set by the construction that initializes it, and no
\* later construction resets _client or reads the settings again.
C3_Singleton == []C3_OneObject /\ [][C3_Step]_vars

\* A later construction, under other settings and with a client held, returned
\* the object with the first settings.
C3_Witness ==
    /\ newRet.obj # 0
    /\ ~newRet.fresh
    /\ newRet.held # 0
    /\ newRet.env = 2
    /\ objects[newRet.obj].supabase_url = Settings(1).supabase_url
    /\ objects[newRet.obj].client = newRet.held

C4_Returned ==
    \A t \in Tasks :
       ret[t].op = "get_client" =>
          /\ ret[t].raised = ""
          /\ ret[t].value # 0
          /\ ret[t].value <= clients
          /\ ret[t].held # 0 => ret[t].value = ret[t].held /\ ret[t].created = 0
          /\ ret[t].held = 0 => ret[t].created = 1

C4_Step ==
    \A t \in Tasks :
       ret'[t] # ret[t] /\ ret'[t].op = "get_client" =>
          /\ ret'[t].value = objects'[ret'[t].obj].client
          /\ clients' = clients + ret'[t].created

C5_GetClientRaises ==
    \A t \in Tasks :
       ret[t].op = "get_client" /\ ret[t].held = 0 => ret[t].raised = "ValueError"

C6_Returned ==
    \A t \in Tasks :
       ret[t].op = "close_client" => (ret[t].held = 0 <=> ret[t].raised = "ValueError")

C6_Step ==
    \A t \in Tasks :
       /\ \A o \in DOMAIN objects :
             /\ CloseClient(t, o) =>
                   IF objects[o].client = 0
                   THEN /\ ret'[t].raised = "ValueError"
                        /\ UNCHANGED <<objects, clients, SupabaseClient_instance, pc>>
                   ELSE /\ ret'[t].raised = ""
                        /\ objects'[o].client = 0
             /\ (GetClientCall(t, o) \/ InitializeClientCall(t, o)) /\ objects[o].client = 0 =>
                   pc'[t] # "idle" /\ self'[t] = o
       /\ CreateClientDone(t) =>
             /\ objects'[self[t]].client = clients'
             /\ clients' > clients

RoleOf(c) == IF c.role = "absent" THEN "user" ELSE c.role

\* C7: get_admin_user returns the verified user exactly when the user's role
\* is the admin role; a verified user with another role gets HTTP 401 "You are
\* not an admin."; a token get_current_user rejects gets HTTP 401 and no user.
C7_AdminOnly ==
    authRet.token # NoToken =>
       LET token == authRet.token
           result == authRet.result
           current_user == GetCurrentUser(token)
       IN  /\ result.raised = "" =>
                /\ token.check = "ok"
                /\ RoleOf(token.claims) = ADMIN_ROLE
                /\ result.user.uid = token.claims.uid
                /\ result.user.role = ADMIN_ROLE
           /\ current_user.raised = "" =>
                /\ result.raised = "" <=> current_user.user.role = ADMIN_ROLE
                /\ result.raised = "" => result.user = current_user.user
                /\ current_user.user.role # ADMIN_ROLE =>
                      /\ result.raised = "HTTPException"
                      /\ result.status_code = HTTP_401_UNAUTHORIZED
                      /\ result.detail = "You are not an admin."
           /\ current_user.raised # "" =>
                /\ result.raised = "HTTPException"
                /\ result.status_code = HTTP_401_UNAUTHORIZED
                /\ result.user.uid = ""

\* A verified user whose role is the admin role was returned.
C7_Witness ==
    /\ authRet.token # NoToken
    /\ authRet.result.raised = ""
    /\ authRet.result.user.role = ADMIN_ROLE
    /\ ADMIN_ROLE = "superuser"

====
